---- MODULE Spec2Model ----
(***************************************************************************)
(* Model of AffineCipherDecrypter (src/affine_cipher_decrypter.py).        *)
(*                                                                         *)
(* A character is its code point (ord), a string is a sequence of code     *)
(* points.  The str predicates and conversions the source calls (isalpha,  *)
(* isupper, lower, upper, the regex class \w) are tabulated for the code   *)
(* points 0..254, which covers every character decrypt can produce for the *)
(* alphabet sizes explored here.                                           *)
(***************************************************************************)
EXTENDS Integers, Sequences, FiniteSets, TLC

(* ------------------------------ bounds -------------------------------- *)

\* largest alphabet size enumerated exhaustively
MaxAlphabetSize == 5
\* longest ciphertext handed to find_possible_plaintext
MaxLen == 2
\* longest text handed to decrypt / encrypt on its own
MaxTextLen == 2
\* longest plaintext handed to calculate_score on its own
MaxScoreLen == 4
\* largest a and m handed to modular_inverse on its own
MaxA == 12
MaxModulus == 12

(* ---------------------------- characters ------------------------------ *)

\* ord('a')
OrdA == 97

\* the value Python's None is modelled by; x % m is never negative
None == -1

\* str.isalpha() on one character, code points 0..255
IsAlpha(c) ==
    \/ c \in 65..90
    \/ c \in 97..122
    \/ c \in {170, 181, 186}
    \/ c \in 192..214
    \/ c \in 216..246
    \/ c \in 248..255

\* str.isupper() on one character, code points 0..255
IsUpper(c) ==
    \/ c \in 65..90
    \/ c \in 192..214
    \/ c \in 216..222

\* str.lower() on one character, code points 0..255 (always one character)
Lower(c) == IF IsUpper(c) THEN c + 32 ELSE c

\* str.upper() on one character, code points 0..254: a string, since the
\* upper case of U+00DF is the two characters "SS"
Upper(c) ==
    IF c \in 97..122 THEN <<c - 32>>
    ELSE IF c = 181 THEN <<924>>
    ELSE IF c = 223 THEN <<83, 83>>
    ELSE IF c \in 224..246 \/ c \in 248..254 THEN <<c - 32>>
    ELSE <<c>>

\* the regex class \w on a str pattern: alphanumeric or underscore
IsWordCharLettersOnly(c) == IsAlpha(c)

IsWordChar(c) ==
    \/ IsAlpha(c)
    \/ c \in 48..57
    \/ c = 95
    \/ c \in {178, 179, 185, 188, 189, 190}

\* the regex class [a-z]
IsAZ(c) == c \in 97..122

\* str.lower() on a string
LowerStr(s) == [i \in 1..Len(s) |-> Lower(s[i])]

(* ------------------------- modular arithmetic ------------------------- *)

RECURSIVE extended_gcd(_, _)
\* gcd and Bezout coefficients, by the recursion of the source
extended_gcd(a, b) ==
    IF a = 0 THEN <<b, 0, 1>>
    ELSE LET r  == extended_gcd(b % a, a)
             x1 == r[2]
             y1 == r[3]
         IN  <<r[1], y1 - (b \div a) * x1, x1>>

modular_inverse_unchecked(a, m) == extended_gcd(a, m)[2] % m

modular_inverse_unnormalised(a, m) ==
    IF extended_gcd(a, m)[1] # 1 THEN None ELSE extended_gcd(a, m)[2]

modular_inverse(a, m) ==
    IF extended_gcd(a, m)[1] # 1 THEN None ELSE extended_gcd(a, m)[2] % m

(* ------------------------------ decrypt ------------------------------- *)

decrypt_index_no_shift(char, shift, multiplier, m) ==
    ((Lower(char) - OrdA) * modular_inverse(multiplier, m)) % m

\* the alphabet position the source computes for one alphabetic character
decrypt_index(char, shift, multiplier, m) ==
    ((Lower(char) - OrdA - shift) * modular_inverse(multiplier, m)) % m

\* the loop body of decrypt: the string appended for one character
decrypt_char(char, shift, multiplier, m) ==
    IF IsAlpha(char)
    THEN LET decrypted_char == decrypt_index(char, shift, multiplier, m) + OrdA
         IN  IF IsUpper(char) THEN Upper(decrypted_char) ELSE <<decrypted_char>>
    ELSE <<char>>

RECURSIVE decrypt_from(_, _, _, _, _)
decrypt_from(text, i, shift, multiplier, m) ==
    IF i > Len(text) THEN <<>>
    ELSE decrypt_char(text[i], shift, multiplier, m)
            \o decrypt_from(text, i + 1, shift, multiplier, m)

decrypt(text, shift, multiplier, m) == decrypt_from(text, 1, shift, multiplier, m)

(* --------------------------- calculate_score -------------------------- *)

\* the regex assertion \b at offset i (0..Len(s)) of s
Boundary(s, i) ==
    LET before == IF i >= 1 THEN IsWordChar(s[i]) ELSE FALSE
        after  == IF i < Len(s) THEN IsWordChar(s[i + 1]) ELSE FALSE
    IN  before # after

RECURSIVE RunEnd(_, _)
\* offset at which the greedy [a-z]+ started at offset i stops
RunEnd(s, i) == IF i < Len(s) /\ IsAZ(s[i + 1]) THEN RunEnd(s, i + 1) ELSE i

RECURSIVE Backtrack(_, _, _)
\* the match end the regex engine settles on: the greedy end e, given back one
\* character at a time until \b holds; 0 - 1 when no end works
Backtrack(s, i, e) ==
    IF e <= i THEN 0 - 1
    ELSE IF Boundary(s, e) THEN e
    ELSE Backtrack(s, i, e - 1)

\* end offset of the match of \b[a-z]+\b starting at offset i, or -1
MatchAt(s, i) ==
    IF Boundary(s, i) THEN Backtrack(s, i, RunEnd(s, i)) ELSE 0 - 1

RECURSIVE findall(_, _)
\* re.findall(r'\b[a-z]+\b', s), scanning from offset i: the matches in order
findall(s, i) ==
    IF i >= Len(s) THEN <<>>
    ELSE LET e == MatchAt(s, i)
         IN  IF e = 0 - 1 THEN findall(s, i + 1)
             ELSE <<SubSeq(s, i + 1, e)>> \o findall(s, e)

RECURSIVE CountValid(_, _)
\* sum(word in self.word_bank for word in words)
CountValid(words, bank) ==
    IF words = <<>> THEN 0
    ELSE (IF Head(words) \in bank THEN 1 ELSE 0) + CountValid(Tail(words), bank)

calculate_score(plaintext, bank) == CountValid(findall(LowerStr(plaintext), 0), bank)

(* ------------------------------- state -------------------------------- *)

VARIABLES
    ciphertext,          \* self.ciphertext; the text handed to decrypt
    word_bank,           \* self.word_bank
    alphabet_size,       \* self.alphabet_size; the modulus m
    pc,                  \* position in the running method
    shift,               \* the value the shift loop is at
    multiplier,          \* the value the multiplier loop is at
    possible_plaintext,  \* the dict, as its items in insertion order
    max_score,           \* max_score of find_possible_plaintext
    item_index,          \* position of the loop over possible_plaintext.items()
    best_plaintext,      \* the list find_possible_plaintext builds and returns
    decrypt_calls,       \* history: the (shift, multiplier) of each decrypt call
    iterations,          \* history: bodies of the shift loop entered so far
    input,               \* argument of a method called on its own
    output               \* value returned by a method called on its own

vars == <<ciphertext, word_bank, alphabet_size, pc, shift, multiplier,
          possible_plaintext, max_score, item_index, best_plaintext,
          decrypt_calls, iterations, input, output>>

\* sampled characters: 'a', 'c', 'B', ' '
CipherChars == {97, 99, 66, 32}
\* sampled characters: 'a', 'z', 'A', '1'
DecryptChars == {97, 122, 65, 49}
\* sampled characters: 'a', 'b', 'A', '1', '_', ' '
ScoreChars == {97, 98, 65, 49, 95, 32}
\* sampled word-bank entries: "a", "b", "ab"
Words == {<<97>>, <<98>>, <<97, 98>>}
\* sampled word-bank entries for the search: "a", "b"
SearchWords == {<<97>>, <<98>>}
\* alphabet sizes beyond the exhaustive range: English, and sizes whose
\* positions fall outside 'a'..'z'
LargeAlphabetSizes == {26, 27, 127}

Texts(chars, n) == UNION {[1..k -> chars] : k \in 0..n}

(* ----------------------- find_possible_plaintext ---------------------- *)

\* range(1, self.alphabet_size) starts at 1
FirstMultiplierTwo == 1 + 1

FirstMultiplier == 1

MinScore(items) ==
    CHOOSE v \in {items[i][2] : i \in 1..Len(items)} :
        \A j \in 1..Len(items) : items[j][2] >= v

\* max(possible_plaintext.values()), for a non-empty dict
MaxScore(items) ==
    CHOOSE v \in {items[i][2] : i \in 1..Len(items)} :
        \A j \in 1..Len(items) : items[j][2] <= v

\* possible_plaintext[key] = value: an existing key keeps its position
DictSet(items, key, value) ==
    IF \E i \in 1..Len(items) : items[i][1] = key
    THEN [i \in 1..Len(items) |->
            IF items[i][1] = key THEN <<key, value>> ELSE items[i]]
    ELSE Append(items, <<key, value>>)

Init ==
    /\ ciphertext \in Texts(CipherChars, MaxLen)
    /\ word_bank \in SUBSET SearchWords
    /\ alphabet_size \in 0..MaxAlphabetSize
    /\ pc = "shift_loop"
    /\ shift = 0
    /\ multiplier = 0
    /\ possible_plaintext = <<>>
    /\ max_score = 0
    /\ item_index = 0
    /\ best_plaintext = <<>>
    /\ decrypt_calls = <<>>
    /\ iterations = 0
    /\ input = <<>>
    /\ output = <<>>

\* for shift in range(self.alphabet_size): the next value is taken
EnterShiftBody ==
    /\ pc = "shift_loop"
    /\ shift < alphabet_size
    /\ multiplier' = FirstMultiplier
    /\ iterations' = iterations + 1
    /\ pc' = "multiplier_loop"
    /\ UNCHANGED <<ciphertext, word_bank, alphabet_size, shift,
                   possible_plaintext, max_score, item_index, best_plaintext,
                   decrypt_calls, input, output>>

\* the shift range is exhausted
ExitShiftLoop ==
    /\ pc = "shift_loop"
    /\ shift >= alphabet_size
    /\ pc' = "select"
    /\ UNCHANGED <<ciphertext, word_bank, alphabet_size, shift, multiplier,
                   possible_plaintext, max_score, item_index, best_plaintext,
                   decrypt_calls, iterations, input, output>>

\* inverse is None: continue
SkipMultiplier ==
    /\ pc = "multiplier_loop"
    /\ multiplier < alphabet_size
    /\ modular_inverse(multiplier, alphabet_size) = None
    /\ multiplier' = multiplier + 1
    /\ UNCHANGED <<ciphertext, word_bank, alphabet_size, pc, shift,
                   possible_plaintext, max_score, item_index, best_plaintext,
                   decrypt_calls, iterations, input, output>>

\* decrypt, score and record the candidate of one key
TryKey ==
    /\ pc = "multiplier_loop"
    /\ multiplier < alphabet_size
    /\ modular_inverse(multiplier, alphabet_size) # None
    /\ LET plaintext == decrypt(ciphertext, shift, multiplier, alphabet_size)
           score     == calculate_score(plaintext, word_bank)
       IN  possible_plaintext' = DictSet(possible_plaintext, plaintext, score)
    /\ decrypt_calls' = Append(decrypt_calls, <<shift, multiplier>>)
    /\ multiplier' = multiplier + 1
    /\ UNCHANGED <<ciphertext, word_bank, alphabet_size, pc, shift,
                   max_score, item_index, best_plaintext, iterations,
                   input, output>>

\* the multiplier range is exhausted: back to the shift loop
ExitMultiplierLoop ==
    /\ pc = "multiplier_loop"
    /\ multiplier >= alphabet_size
    /\ shift' = shift + 1
    /\ pc' = "shift_loop"
    /\ UNCHANGED <<ciphertext, word_bank, alphabet_size, multiplier,
                   possible_plaintext, max_score, item_index, best_plaintext,
                   decrypt_calls, iterations, input, output>>

\* max() of an empty sequence raises ValueError
RaiseValueError ==
    /\ pc = "select"
    /\ possible_plaintext = <<>>
    /\ pc' = "error"
    /\ UNCHANGED <<ciphertext, word_bank, alphabet_size, shift, multiplier,
                   possible_plaintext, max_score, item_index, best_plaintext,
                   decrypt_calls, iterations, input, output>>

ComputeMaxScore ==
    /\ pc = "select"
    /\ possible_plaintext # <<>>
    /\ max_score' = MaxScore(possible_plaintext)
    /\ item_index' = 1
    /\ pc' = "filter"
    /\ UNCHANGED <<ciphertext, word_bank, alphabet_size, shift, multiplier,
                   possible_plaintext, best_plaintext, decrypt_calls,
                   iterations, input, output>>

\* one iteration of the loop over possible_plaintext.items()
FilterItem ==
    /\ pc = "filter"
    /\ item_index <= Len(possible_plaintext)
    /\ best_plaintext' =
          IF possible_plaintext[item_index][2] = max_score
          THEN Append(best_plaintext, possible_plaintext[item_index][1])
          ELSE best_plaintext
    /\ item_index' = item_index + 1
    /\ UNCHANGED <<ciphertext, word_bank, alphabet_size, pc, shift, multiplier,
                   possible_plaintext, max_score, decrypt_calls, iterations,
                   input, output>>

ReturnBest ==
    /\ pc = "filter"
    /\ item_index > Len(possible_plaintext)
    /\ pc' = "done"
    /\ UNCHANGED <<ciphertext, word_bank, alphabet_size, shift, multiplier,
                   possible_plaintext, max_score, item_index, best_plaintext,
                   decrypt_calls, iterations, input, output>>

Next ==
    \/ EnterShiftBody
    \/ ExitShiftLoop
    \/ SkipMultiplier
    \/ TryKey
    \/ ExitMultiplierLoop
    \/ RaiseValueError
    \/ ComputeMaxScore
    \/ FilterItem
    \/ ReturnBest

Spec == Init /\ [][Next]_vars

(* ------------------------ methods called on their own ----------------- *)

\* modular_inverse(a, m) for the moduli the search uses (m >= 2), any a >= 0
InitInverse ==
    /\ multiplier \in 0..MaxA
    /\ alphabet_size \in 2..MaxModulus
    /\ pc = "inverse_call"
    /\ ciphertext = <<>>
    /\ word_bank = {}
    /\ shift = 0
    /\ possible_plaintext = <<>>
    /\ max_score = 0
    /\ item_index = 0
    /\ best_plaintext = <<>>
    /\ decrypt_calls = <<>>
    /\ iterations = 0
    /\ input = <<>>
    /\ output = <<>>

CallModularInverse ==
    /\ pc = "inverse_call"
    /\ output' = modular_inverse(multiplier, alphabet_size)
    /\ pc' = "inverse_returned"
    /\ UNCHANGED <<ciphertext, word_bank, alphabet_size, shift, multiplier,
                   possible_plaintext, max_score, item_index, best_plaintext,
                   decrypt_calls, iterations, input>>

NextInverse == CallModularInverse

SpecInverse == InitInverse /\ [][NextInverse]_vars

\* calculate_score(plaintext) for sampled plaintexts and word banks
InitScore ==
    /\ input \in Texts(ScoreChars, MaxScoreLen)
    /\ word_bank \in SUBSET Words
    /\ pc = "score_call"
    /\ ciphertext = <<>>
    /\ alphabet_size = 0
    /\ shift = 0
    /\ multiplier = 0
    /\ possible_plaintext = <<>>
    /\ max_score = 0
    /\ item_index = 0
    /\ best_plaintext = <<>>
    /\ decrypt_calls = <<>>
    /\ iterations = 0
    /\ output = <<>>

CallCalculateScore ==
    /\ pc = "score_call"
    /\ output' = calculate_score(input, word_bank)
    /\ pc' = "score_returned"
    /\ UNCHANGED <<ciphertext, word_bank, alphabet_size, shift, multiplier,
                   possible_plaintext, max_score, item_index, best_plaintext,
                   decrypt_calls, iterations, input>>

NextScore == CallCalculateScore

SpecScore == InitScore /\ [][NextScore]_vars

\* the forward affine transform the round trip is stated against:
\* cipher_index = (plain_index * multiplier + shift) mod m, case kept,
\* non-letters copied
encrypt_char(char, s, k, m) ==
    IF IsAlpha(char)
    THEN LET encrypted_char == (((Lower(char) - OrdA) * k + s) % m) + OrdA
         IN  IF IsUpper(char) THEN Upper(encrypted_char) ELSE <<encrypted_char>>
    ELSE <<char>>

RECURSIVE encrypt_from(_, _, _, _, _)
encrypt_from(text, i, s, k, m) ==
    IF i > Len(text) THEN <<>>
    ELSE encrypt_char(text[i], s, k, m) \o encrypt_from(text, i + 1, s, k, m)

encrypt(text, s, k, m) == encrypt_from(text, 1, s, k, m)

\* the text is over the alphabet: each of its letters has a position below m
InAlphabet(text, m) ==
    \A i \in 1..Len(text) : IsAlpha(text[i]) => Lower(text[i]) - OrdA < m

\* decrypt(text, shift, multiplier) with a key that passed the inverse check
\* of find_possible_plaintext
InitDecrypt ==
    /\ alphabet_size \in (2..MaxAlphabetSize) \cup LargeAlphabetSizes
    /\ shift \in 0..(alphabet_size - 1)
    /\ multiplier \in {k \in 1..(alphabet_size - 1) :
                          modular_inverse(k, alphabet_size) # None}
    /\ input \in Texts(DecryptChars, MaxTextLen)
    /\ pc = "decrypt_call"
    /\ ciphertext = <<>>
    /\ word_bank = {}
    /\ possible_plaintext = <<>>
    /\ max_score = 0
    /\ item_index = 0
    /\ best_plaintext = <<>>
    /\ decrypt_calls = <<>>
    /\ iterations = 0
    /\ output = <<>>

\* the input is taken as ciphertext and decrypted
CallDecrypt ==
    /\ pc = "decrypt_call"
    /\ ciphertext' = input
    /\ output' = decrypt(input, shift, multiplier, alphabet_size)
    /\ pc' = "decrypted"
    /\ UNCHANGED <<word_bank, alphabet_size, shift, multiplier,
                   possible_plaintext, max_score, item_index, best_plaintext,
                   decrypt_calls, iterations, input>>

\* the input, a text over the alphabet, is taken as plaintext and encrypted
CallEncrypt ==
    /\ pc = "decrypt_call"
    /\ InAlphabet(input, alphabet_size)
    /\ ciphertext' = encrypt(input, shift, multiplier, alphabet_size)
    /\ pc' = "encrypted"
    /\ UNCHANGED <<word_bank, alphabet_size, shift, multiplier,
                   possible_plaintext, max_score, item_index, best_plaintext,
                   decrypt_calls, iterations, input, output>>

\* the encrypted text is decrypted with the same key
CallDecryptEncrypted ==
    /\ pc = "encrypted"
    /\ output' = decrypt(ciphertext, shift, multiplier, alphabet_size)
    /\ pc' = "round_trip"
    /\ UNCHANGED <<ciphertext, word_bank, alphabet_size, shift, multiplier,
                   possible_plaintext, max_score, item_index, best_plaintext,
                   decrypt_calls, iterations, input>>

NextDecrypt ==
    \/ CallDecrypt
    \/ CallEncrypt
    \/ CallDecryptEncrypted

SpecDecrypt == InitDecrypt /\ [][NextDecrypt]_vars

(* ------------------------------ properties ---------------------------- *)

Divides(d, n) == n % d = 0

\* greatest common divisor of a >= 0 and b >= 1, from its definition
Gcd(a, b) ==
    CHOOSE d \in 1..b :
        /\ Divides(d, a) /\ Divides(d, b)
        /\ \A e \in 1..b : (Divides(e, a) /\ Divides(e, b)) => e <= d

\* the (shift, multiplier) pairs with a multiplier coprime with m
ValidKeys(m) ==
    {key \in (0..(m - 1)) \X (1..(m - 1)) : Gcd(key[2], m) = 1}

\* the loops of find_possible_plaintext are over
PostLoop == pc \in {"select", "filter", "done", "error"}

Range(seq) == {seq[i] : i \in 1..Len(seq)}

PlaintextOf(key) == decrypt(ciphertext, key[1], key[2], alphabet_size)

ScoreOf(key) == calculate_score(PlaintextOf(key), word_bank)

HasAlpha(text) == \E i \in 1..Len(text) : IsAlpha(text[i])

\* str.islower() on one character, code points 0..255
IsLower(c) ==
    \/ c \in 97..122
    \/ c \in {170, 181, 186}
    \/ c \in 223..246
    \/ c \in 248..255

\* C1: decrypting the affine encryption of a plaintext under the same valid
\* key gives the plaintext back
C1_RoundTrip == pc = "round_trip" => output = input

\* C2: modular_inverse(a, m) is None exactly when gcd(a, m) # 1, and is
\* otherwise an x in [0, m) with (a * x) mod m = 1
C2_ModularInverse ==
    pc = "inverse_returned" =>
        /\ (output = None) <=> (Gcd(multiplier, alphabet_size) # 1)
        /\ output # None =>
              /\ output >= 0
              /\ output < alphabet_size
              /\ (multiplier * output) % alphabet_size = 1

\* an inverse was returned whose Bezout coefficient was negative
C2_Witness ==
    /\ pc = "inverse_returned"
    /\ output # None
    /\ extended_gcd(multiplier, alphabet_size)[2] < 0

\* C3: the returned list holds exactly the plaintexts of the valid keys whose
\* score is the maximum over all valid keys
C3_MaximalCandidates ==
    pc = "done" =>
        LET keys == ValidKeys(alphabet_size)
            best == {k \in keys : \A j \in keys : ScoreOf(j) <= ScoreOf(k)}
        IN  /\ Range(best_plaintext) = {PlaintextOf(k) : k \in best}
            /\ \A k \in keys : ScoreOf(k) <= max_score
            /\ \A i \in 1..Len(best_plaintext) :
                  calculate_score(best_plaintext[i], word_bank) = max_score

\* a tie at a positive maximum between different plaintexts, with a
\* lower-scoring candidate left out
C3_Witness ==
    /\ pc = "done"
    /\ max_score >= 1
    /\ Cardinality(Range(best_plaintext)) >= 2
    /\ Len(possible_plaintext) > Len(best_plaintext)

\* C4: decrypt is called once for each valid key and for no other pair; an
\* alphabet of size 2 has exactly 2 keys
C4_DecryptOncePerValidKey ==
    /\ \A i \in 1..Len(decrypt_calls) :
          /\ decrypt_calls[i] \in ValidKeys(alphabet_size)
          /\ \A j \in 1..Len(decrypt_calls) :
                decrypt_calls[i] = decrypt_calls[j] => i = j
    /\ PostLoop =>
          /\ Range(decrypt_calls) = ValidKeys(alphabet_size)
          /\ alphabet_size = 2 => Len(decrypt_calls) = 2

\* the search over an alphabet with a non-invertible multiplier is over
C4_Witness ==
    /\ pc = "done"
    /\ alphabet_size = 4
    /\ Len(decrypt_calls) = 8

\* C5: decrypt returns a string of the ciphertext's length that has every
\* non-alphabetic character of the ciphertext at its position
C5_LengthAndNonLettersKept ==
    pc = "decrypted" =>
        /\ Len(output) = Len(ciphertext)
        /\ \A i \in 1..Len(ciphertext) :
              ~IsAlpha(ciphertext[i]) => output[i] = ciphertext[i]

\* C6: decrypt maps an uppercase letter to an uppercase letter and a
\* lowercase letter to a lowercase letter, at the same position
C6_CasePreserved ==
    pc = "decrypted" =>
        \A i \in 1..Len(ciphertext) :
            /\ i <= Len(output)
            /\ IsUpper(ciphertext[i]) => IsUpper(output[i])
            /\ IsLower(ciphertext[i]) => IsLower(output[i])

\* letters, digits and the underscore
IsLetterDigitUnderscore(c) == IsAlpha(c) \/ c \in 48..57 \/ c = 95

\* number of runs s[i..j] that are words of the bank, where a run is maximal
\* among the characters of InRun and has no character of Joins next to it
CountRuns(s, bank, InRun(_), Joins(_)) ==
    Cardinality({r \in (1..Len(s)) \X (1..Len(s)) :
        /\ r[1] <= r[2]
        /\ \A i \in r[1]..r[2] : InRun(s[i])
        /\ r[1] > 1 => ~InRun(s[r[1] - 1]) /\ ~Joins(s[r[1] - 1])
        /\ r[2] < Len(s) => ~InRun(s[r[2] + 1]) /\ ~Joins(s[r[2] + 1])
        /\ SubSeq(s, r[1], r[2]) \in bank})

\* tokens as maximal runs of letters, ended by any non-letter
AlphabeticRunScore(text, bank) == CountRuns(LowerStr(text), bank, IsAlpha, IsAlpha)

\* tokens as maximal runs of a..z that touch no letter, digit or underscore
WordRunScore(text, bank) ==
    CountRuns(LowerStr(text), bank, IsAZ, IsLetterDigitUnderscore)

C8_NonEmptyResult ==
    /\ alphabet_size >= 2 => pc # "error"
    /\ (alphabet_size >= 2 /\ PostLoop) =>
          /\ decrypt_calls # <<>>
          /\ decrypt_calls[1] = <<0, 1>>
    /\ pc = "done" => Len(best_plaintext) >= 1
    /\ pc = "error" => (alphabet_size \in {0, 1} /\ decrypt_calls = <<>>)

\* the smallest alphabet with a key returned a result
C8_Witness ==
    /\ pc = "done"
    /\ alphabet_size = 2
    /\ Len(best_plaintext) >= 1

\* C9: the error for a degenerate alphabet size is raised before any body of
\* the shift loop has run
C9_ErrorBeforeEnumeration == pc = "error" => iterations = 0

AbsDiff(a, b) == IF a >= b THEN a - b ELSE b - a

\* the text has two letters whose alphabet positions differ by an amount
\* coprime with m
HasCoprimePair(text, m) ==
    \E i, j \in 1..Len(text) :
        /\ IsAlpha(text[i]) /\ IsAlpha(text[j])
        /\ Gcd(AbsDiff(Lower(text[i]), Lower(text[j])), m) = 1

====
